---- MODULE Spec2Model ----
(***************************************************************************)
(* Landed-cost model of src/app.py: the TCO engine (calculate_tco), the    *)
(* insight generator (generate_ai_insight) and the script that wires them  *)
(* to the catalog record and the widgets.                                  *)
(*                                                                         *)
(* Numbers.  Every number of the program is a Python float.  A float is    *)
(* modelled as the integer n that stands for n / 2^EMin, restricted to the *)
(* values with at most Precision significant bits; each arithmetic         *)
(* operation computes the exact result and rounds it to the nearest such   *)
(* value, ties to even, as IEEE-754 arithmetic does.  Python's floats are  *)
(* the instance Precision = 53; the model runs the same algorithms at a    *)
(* small precision.                                                        *)
(***************************************************************************)
EXTENDS Integers, Sequences, FiniteSets, TLC

\* ------------------------------------------------------------------------
\* Floating point
\* ------------------------------------------------------------------------

\* Significant bits of a float (53 for a Python float).
Precision == 12

\* Floats are multiples of 2^-EMin.
EMin == Precision + 9

Pow2(k) == 2 ^ k

Abs(n) == IF n < 0 THEN -n ELSE n

\* Smallest power of two q with a / (d*q) < 2^Precision (a >= 0, d > 0).
RECURSIVE Quantum(_, _)
Quantum(a, d) == IF a \div d < Pow2(Precision) THEN 1 ELSE 2 * Quantum(a, 2 * d)

\* a / d rounded to the nearest integer, ties to even (a >= 0, d > 0).
RoundNearestEven(a, d) ==
    LET q == a \div d
        r == a % d
    IN  IF 2 * r > d \/ (2 * r = d /\ q % 2 = 1) THEN q + 1 ELSE q

\* The float nearest to a / d (in units of 2^-EMin).
Round(a, d) ==
    LET q == Quantum(Abs(a), d)
        m == q * RoundNearestEven(Abs(a), d * q)
    IN  IF a < 0 THEN -m ELSE m

\* Largest k with 2^k dividing n (n > 0).
RECURSIVE TrailingZeros(_)
TrailingZeros(n) == IF n % 2 = 1 THEN 0 ELSE 1 + TrailingZeros(n \div 2)

FAdd(x, y) == Round(x + y, 1)

FSub(x, y) == Round(x - y, 1)

FAbs(x) == Abs(x)

\* x * y: the exact product is mx*my * 2^(ex+ey-EMin) units.
FMul(x, y) ==
    IF x = 0 \/ y = 0 THEN 0
    ELSE LET ex == TrailingZeros(Abs(x))
             ey == TrailingZeros(Abs(y))
             a  == (Abs(x) \div Pow2(ex)) * (Abs(y) \div Pow2(ey))
             e  == ex + ey - EMin
             m  == IF e >= 0 THEN Round(a, 1) * Pow2(e) ELSE Round(a, Pow2(-e))
         IN  IF (x < 0) = (y < 0) THEN m ELSE -m

\* x / y: the exact quotient is x * 2^EMin / y units (y # 0).
FDiv(x, y) ==
    LET ey == TrailingZeros(Abs(y))
        my == Abs(y) \div Pow2(ey)
        m  == IF ey >= EMin THEN Round(Abs(x), my * Pow2(ey - EMin))
                            ELSE Round(Abs(x) * Pow2(EMin - ey), my)
    IN  IF (x < 0) = (y < 0) THEN m ELSE -m

\* The float a decimal literal or parsed number denotes; the decimal is given
\* in thousandths (mills): float("0.005") is FloatOf(5).
\* (mills / 1000 is reduced by the common factor before it is scaled.)
FloatOf(mills) ==
    LET g == IF mills % 125 = 0 THEN 125
             ELSE IF mills % 25 = 0 THEN 25
             ELSE IF mills % 5 = 0 THEN 5 ELSE 1
    IN  Round((mills \div g) * Pow2(EMin - 3), 125 \div g)

\* format(x, ",.2f") for x >= 0 (every amount the insight formats is one):
\* the exact value of x rounded to hundredths, ties to even; the result is
\* the number of hundredths printed.
Fmt2(x) ==
    100 * (Abs(x) \div Pow2(EMin))
      + RoundNearestEven((Abs(x) % Pow2(EMin)) * 25, Pow2(EMin - 2))

\* The float of a small integer.
FloatOfInt(i) == Round(i * Pow2(EMin), 1)

\* ------------------------------------------------------------------------
\* State
\* ------------------------------------------------------------------------

VARIABLES
    pc,             \* position of the run: which call comes next
    args,           \* the arguments of a calculate_tco call
    ret,            \* what that call returned
    product_data,   \* the catalog row of the selected SKU
    interest_rate,  \* slider value / 100
    a_mode, a_lead, a_freight,              \* Option A widgets
    alt_origin, b_mode, b_lead, b_freight,  \* Option B widgets
    res_a, res_b,   \* the two cost breakdowns
    savings,        \* res_a total - res_b total
    insight,        \* generate_ai_insight(res_a, res_b, ...)
    swapped         \* the same comparison with the breakdowns exchanged

vars == <<pc, args, ret, product_data, interest_rate, a_mode, a_lead, a_freight,
          alt_origin, b_mode, b_lead, b_freight, res_a, res_b, savings, insight,
          swapped>>

\* Value of a variable the specification at hand does not use.
None == [none |-> TRUE]

\* ------------------------------------------------------------------------
\* 2. Logic engine (TCO)
\* ------------------------------------------------------------------------

WeeksPerYear == 52

\* Variant: the preferential class is charged the base duty.
applied_duty_mexico_pays(country_type, base_duty) ==
    IF country_type = "China" THEN base_duty ELSE base_duty

\* Variant: only the label "Standard" is charged the base duty, an unknown
\* label none.
applied_duty_unknown_free(country_type, base_duty) ==
    IF country_type = "Mexico" THEN 0
    ELSE IF country_type = "China" THEN base_duty
    ELSE IF country_type = "Standard" THEN base_duty
    ELSE 0

\* The duty rate the country type is charged.
applied_duty(country_type, base_duty) ==
    IF country_type = "Mexico" THEN 0
    ELSE IF country_type = "China" THEN base_duty
    ELSE base_duty

\* Variant: China is charged the base duty only.
tariff_301_china_exempt(country_type, section_301) ==
    IF country_type = "Mexico" THEN 0 ELSE 0

\* The Section 301 rate the country type is charged.
tariff_301(country_type, section_301) ==
    IF country_type = "Mexico" THEN 0
    ELSE IF country_type = "China" THEN section_301
    ELSE 0

cost_inventory(fob_price, interest_rate_, lead_time_weeks) ==
    FMul(FMul(fob_price, FDiv(interest_rate_, FloatOfInt(WeeksPerYear))),
         lead_time_weeks)

\* Variant: the Section 301 line is left out of the total.
total_landed_cost_no_301(fob_price, freight, cost_duty, cost_301, cost_inv) ==
    FAdd(FAdd(FAdd(fob_price, freight), cost_duty), cost_inv)

total_landed_cost(fob_price, freight, cost_duty, cost_301, cost_inv) ==
    FAdd(FAdd(FAdd(FAdd(fob_price, freight), cost_duty), cost_301), cost_inv)

\* The returned dict.
Breakdown(fob_price, freight, cost_duty, cost_301, cost_inv) ==
    [k \in {"FOB Price", "Freight", "Base Duty", "Section 301 Penalty",
            "Inventory Cost", "Total TCO"} |->
        CASE k = "FOB Price"           -> fob_price
          [] k = "Freight"             -> freight
          [] k = "Base Duty"           -> cost_duty
          [] k = "Section 301 Penalty" -> cost_301
          [] k = "Inventory Cost"      -> cost_inv
          [] k = "Total TCO"           ->
                total_landed_cost(fob_price, freight, cost_duty, cost_301, cost_inv)]

calculate_tco(fob_price, freight, lead_time_weeks, interest_rate_, base_duty, section_301, country_type) ==
    LET cost_duty == FMul(fob_price, applied_duty(country_type, base_duty))
        cost_301  == FMul(fob_price, tariff_301(country_type, section_301))
        cost_inv  == cost_inventory(fob_price, interest_rate_, lead_time_weeks)
    IN  Breakdown(fob_price, freight, cost_duty, cost_301, cost_inv)

\* ------------------------------------------------------------------------
\* Specification of the engine alone: any call with non-negative arguments
\* ------------------------------------------------------------------------

FobMills      == {0, 800, 1000}
FreightMills  == {0, 500, 600}
LeadWeeks     == {0, 5, 7}
InterestMills == {0, 120}
DutyMills     == {0, 50, 250}
S301Mills     == {0, 250}
CountryTypes  == {"Mexico", "China", "Standard", "Vietnam", ""}

InitTCO ==
    /\ pc = "call"
    /\ args \in [fob_price : {FloatOf(m) : m \in FobMills},
                 freight : {FloatOf(m) : m \in FreightMills},
                 lead_time_weeks : {FloatOfInt(w) : w \in LeadWeeks},
                 interest_rate : {FloatOf(m) : m \in InterestMills},
                 base_duty : {FloatOf(m) : m \in DutyMills},
                 section_301 : {FloatOf(m) : m \in S301Mills},
                 country_type : CountryTypes]
    /\ ret = None
    /\ product_data = None /\ interest_rate = None
    /\ a_mode = None /\ a_lead = None /\ a_freight = None
    /\ alt_origin = None /\ b_mode = None /\ b_lead = None /\ b_freight = None
    /\ res_a = None /\ res_b = None /\ savings = None
    /\ insight = None /\ swapped = None

CallTCO ==
    /\ pc = "call"
    /\ ret' = calculate_tco(args.fob_price, args.freight, args.lead_time_weeks,
                            args.interest_rate, args.base_duty, args.section_301,
                            args.country_type)
    /\ pc' = "returned"
    /\ UNCHANGED <<args, product_data, interest_rate, a_mode, a_lead, a_freight,
                   alt_origin, b_mode, b_lead, b_freight, res_a, res_b, savings,
                   insight, swapped>>

NextTCO == CallTCO

SpecTCO == InitTCO /\ [][NextTCO]_vars

\* ------------------------------------------------------------------------
\* 3. Analyst engine
\* ------------------------------------------------------------------------

ThresholdMills == 10

\* The literal 0.01.
Threshold == FloatOf(ThresholdMills)

\* A rendered sentence: its fixed text, the origin label interpolated into
\* it ("" when the text has none) and the formatted amount in hundredths
\* (0 when the text has none).

Msg(text, origin, amount) == [text |-> text, origin |-> origin, amount |-> amount]

Fallback == Msg("No significant cost drivers detected (Deltas < $0.01).", "", 0)

\* Variant: a tie favors the alternate origin.
verdict_tie_favors(sav, origin) ==
    IF sav >= 0 THEN <<"Recommendation: DIVERSIFY to", origin>>
    ELSE <<"Recommendation: REMAIN in China">>

\* Variant: the verdict has the drivers' dead band.
verdict_dead_band(sav, origin) ==
    IF sav > Threshold THEN <<"Recommendation: DIVERSIFY to", origin>>
    ELSE <<"Recommendation: REMAIN in China">>

\* 1. The verdict.
verdict(sav, origin) ==
    IF sav > 0 THEN <<"Recommendation: DIVERSIFY to", origin>>
    ELSE <<"Recommendation: REMAIN in China">>

reason(sav, origin) ==
    IF sav > 0 THEN Msg("Yields a net saving of", "", Fmt2(sav))
    ELSE Msg("Moving to {alt_origin} increases cost by", origin, Fmt2(FAbs(sav)))

\* A. Tariff impact.
tariff_gap(ra, rb) ==
    FSub(FAdd(ra["Section 301 Penalty"], ra["Base Duty"]),
         FAdd(rb["Section 301 Penalty"], rb["Base Duty"]))

TariffDriver(ra, rb, origin) ==
    LET gap == tariff_gap(ra, rb)
    IN  IF gap > Threshold
          THEN <<Msg("Avoiding China tariffs saves", "", Fmt2(gap))>>
        ELSE IF gap < -Threshold
          THEN <<Msg("However, tariffs are higher in {alt_origin} by", origin,
                     Fmt2(FAbs(gap)))>>
        ELSE <<>>

\* B. Logistics impact.
freight_gap(ra, rb) == FSub(rb["Freight"], ra["Freight"])

\* Variant: the comparisons include the threshold.
FreightDriver_inclusive(ra, rb) ==
    LET gap == freight_gap(ra, rb)
    IN  IF gap >= Threshold
          THEN <<Msg("Logistics costs increase by", "", Fmt2(gap))>>
        ELSE IF gap <= -Threshold
          THEN <<Msg("Logistics costs decrease by", "", Fmt2(FAbs(gap)))>>
        ELSE <<>>

FreightDriver(ra, rb) ==
    LET gap == freight_gap(ra, rb)
    IN  IF gap > Threshold
          THEN <<Msg("Logistics costs increase by", "", Fmt2(gap))>>
        ELSE IF gap < -Threshold
          THEN <<Msg("Logistics costs decrease by", "", Fmt2(FAbs(gap)))>>
        ELSE <<>>

\* C. Inventory impact.
inventory_gap(ra, rb) == FSub(rb["Inventory Cost"], ra["Inventory Cost"])

InventoryDriver(ra, rb) ==
    LET gap == inventory_gap(ra, rb)
    IN  IF gap > Threshold
          THEN <<Msg("Extended lead times add", "", Fmt2(gap))>>
        ELSE IF gap < -Threshold
          THEN <<Msg("Faster lead times save", "", Fmt2(FAbs(gap)))>>
        ELSE <<>>

\* Variant: the freight driver is listed first.
drivers_freight_first(ra, rb, origin) ==
    LET found == FreightDriver(ra, rb) \o TariffDriver(ra, rb, origin)
                   \o InventoryDriver(ra, rb)
    IN  IF found = <<>> THEN <<Fallback>> ELSE found

drivers(ra, rb, origin) ==
    LET found == TariffDriver(ra, rb, origin) \o FreightDriver(ra, rb)
                   \o InventoryDriver(ra, rb)
    IN  IF found = <<>> THEN <<Fallback>> ELSE found

generate_ai_insight(ra, rb, sav, origin, lead_time_diff) ==
    [verdict |-> verdict(sav, origin),
     reason  |-> reason(sav, origin),
     drivers |-> drivers(ra, rb, origin)]

\* The caller's subtraction of the two totals.
Savings(ra, rb) == FSub(ra["Total TCO"], rb["Total TCO"])

\* ------------------------------------------------------------------------
\* Specification of the analyst engine alone: any two breakdowns, compared
\* in the given order and in the exchanged order
\* ------------------------------------------------------------------------

CompFobMills     == {1000, 1005}
CompFreightMills == {0, 5, 10, 20}
CompDutyMills    == {0, 20, 25}
Comp301Mills     == {0, 5, 10}
CompInvMills     == {0, 5, 30}
Labels           == {"Vietnam", "Mexico"}

Breakdowns ==
    {Breakdown(FloatOf(p), FloatOf(f), FloatOf(d), FloatOf(s), FloatOf(i)) :
        p \in CompFobMills, f \in CompFreightMills, d \in CompDutyMills,
        s \in Comp301Mills, i \in CompInvMills}

InitInsight ==
    /\ pc = "compare"
    /\ res_a \in Breakdowns
    /\ res_b \in Breakdowns
    /\ alt_origin \in Labels
    /\ savings = None /\ insight = None /\ swapped = None
    /\ args = None /\ ret = None
    /\ product_data = None /\ interest_rate = None
    /\ a_mode = None /\ a_lead = None /\ a_freight = None
    /\ b_mode = None /\ b_lead = None /\ b_freight = None

Compare ==
    /\ pc = "compare"
    /\ insight = None
    /\ savings' = Savings(res_a, res_b)
    /\ insight' = generate_ai_insight(res_a, res_b, savings', alt_origin, 0)
    /\ UNCHANGED <<pc, args, ret, product_data, interest_rate, a_mode, a_lead,
                   a_freight, alt_origin, b_mode, b_lead, b_freight, res_a, res_b,
                   swapped>>

CompareSwapped ==
    /\ pc = "compare"
    /\ swapped = None
    /\ swapped' = [savings |-> Savings(res_b, res_a),
                   insight |-> generate_ai_insight(res_b, res_a,
                                   Savings(res_b, res_a), alt_origin, 0)]
    /\ UNCHANGED <<pc, args, ret, product_data, interest_rate, a_mode, a_lead,
                   a_freight, alt_origin, b_mode, b_lead, b_freight, res_a, res_b,
                   savings, insight>>

NextInsight == Compare \/ CompareSwapped

SpecInsight == InitInsight /\ [][NextInsight]_vars

\* ------------------------------------------------------------------------
\* 1. Catalog
\* ------------------------------------------------------------------------

\* A rate cell of the file: a string "<number>%" or a number; `mills` is the
\* number in thousandths.
Pct(mills) == [str |-> TRUE, mills |-> mills]
Num(mills) == [str |-> FALSE, mills |-> mills]

clean_pct(val) ==
    IF val.str THEN FDiv(FloatOf(val.mills), FloatOfInt(100))
    ELSE FloatOf(val.mills)

\* The rows of apple_products.csv as read (prices and weights in mills).
RawCatalog ==
    <<[Product_Name |-> "iPhone", Unit_Price_USD |-> 1000, Weight_kg |-> 200,
       Base_Duty_Rate |-> Pct(0), Section_301_Tariff |-> Pct(25000)],
      [Product_Name |-> "Watch", Unit_Price_USD |-> 800, Weight_kg |-> 100,
       Base_Duty_Rate |-> Num(50), Section_301_Tariff |-> Pct(7500)],
      [Product_Name |-> "Cable", Unit_Price_USD |-> 20, Weight_kg |-> 400,
       Base_Duty_Rate |-> Pct(5000), Section_301_Tariff |-> Num(0)]>>

load_data ==
    [i \in DOMAIN RawCatalog |->
        [Product_Name       |-> RawCatalog[i].Product_Name,
         Unit_Price_USD     |-> FloatOf(RawCatalog[i].Unit_Price_USD),
         Weight_kg          |-> FloatOf(RawCatalog[i].Weight_kg),
         Base_Duty_Rate     |-> clean_pct(RawCatalog[i].Base_Duty_Rate),
         Section_301_Tariff |-> clean_pct(RawCatalog[i].Section_301_Tariff)]]

product_df == load_data

\* ------------------------------------------------------------------------
\* 4.-7. The script: widgets, the two scenarios, the summary
\* ------------------------------------------------------------------------

AirRateMills   == 8500
OceanRateMills == 500

estimate_freight(weight, mode) ==
    IF mode = "Air" THEN FMul(weight, FloatOf(AirRateMills))
    ELSE FMul(weight, FloatOf(OceanRateMills))

\* float(f"{x:.2f}")
TwoDecimals(x) == FloatOf(10 * Fmt2(x))

Modes   == {"Ocean", "Air"}
Origins == {"Vietnam", "India", "Mexico", "Thailand"}

\* The slider: 5.0 .. 20.0 in steps of 0.5, 12.0 at the start; the values
\* the model moves it to, in thousandths.
SliderDefaultMills == 12000
SliderMills == {SliderDefaultMills, 20000}

SliderRate(mills) == FDiv(FloatOf(mills), FloatOfInt(100))

def_a_lead(mode) == IF mode = "Ocean" THEN 5 ELSE 1

def_a_freight(product, mode) ==
    IF mode = "Ocean" THEN estimate_freight(product.Weight_kg, "Ocean")
    ELSE estimate_freight(product.Weight_kg, "Air")

def_b_lead(origin, mode) ==
    IF mode = "Ocean" THEN (IF origin # "Mexico" THEN 7 ELSE 2) ELSE 1

def_b_freight(product, mode) ==
    IF mode = "Ocean"
      THEN FMul(estimate_freight(product.Weight_kg, "Ocean"), FloatOf(1200))
      ELSE FMul(estimate_freight(product.Weight_kg, "Air"), FloatOf(1100))

\* Variant: the other origins are evaluated as China.
b_type_china(origin) == IF origin = "Mexico" THEN "Mexico" ELSE "China"

b_type(origin) == IF origin = "Mexico" THEN "Mexico" ELSE "Standard"

\* What the user types into the number inputs (no minimum is set on them).
TypedLeads        == {3}
TypedFreightMills == {-500, 1500}

\* One run of the script over the widget values of the next state.
Rerun ==
    /\ res_a' = calculate_tco(product_data'.Unit_Price_USD, a_freight', a_lead',
                              interest_rate', product_data'.Base_Duty_Rate,
                              product_data'.Section_301_Tariff, "China")
    /\ res_b' = calculate_tco(product_data'.Unit_Price_USD, b_freight', b_lead',
                              interest_rate', product_data'.Base_Duty_Rate,
                              product_data'.Section_301_Tariff, b_type(alt_origin'))
    /\ savings' = Savings(res_a', res_b')
    /\ insight' = generate_ai_insight(res_a', res_b', savings', alt_origin',
                                      FSub(b_lead', a_lead'))
    /\ UNCHANGED <<pc, args, ret, swapped>>

\* The first run: every widget at its default.
InitApp ==
    /\ pc = "script"
    /\ args = None /\ ret = None /\ swapped = None
    /\ product_data = product_df[1]
    /\ interest_rate = SliderRate(SliderDefaultMills)
    /\ a_mode = "Ocean"
    /\ a_lead = FloatOfInt(def_a_lead(a_mode))
    /\ a_freight = TwoDecimals(def_a_freight(product_data, a_mode))
    /\ alt_origin = "Vietnam"
    /\ b_mode = "Ocean"
    /\ b_lead = FloatOfInt(def_b_lead(alt_origin, b_mode))
    /\ b_freight = TwoDecimals(def_b_freight(product_data, b_mode))
    /\ res_a = calculate_tco(product_data.Unit_Price_USD, a_freight, a_lead,
                             interest_rate, product_data.Base_Duty_Rate,
                             product_data.Section_301_Tariff, "China")
    /\ res_b = calculate_tco(product_data.Unit_Price_USD, b_freight, b_lead,
                             interest_rate, product_data.Base_Duty_Rate,
                             product_data.Section_301_Tariff, b_type(alt_origin))
    /\ savings = Savings(res_a, res_b)
    /\ insight = generate_ai_insight(res_a, res_b, savings, alt_origin,
                                     FSub(b_lead, a_lead))

\* The freight inputs take their default from the weight: when the SKU
\* changes, the widget library either keeps what the input held or shows the
\* new default, depending on its version.
SelectProduct ==
    \E i \in DOMAIN product_df :
        /\ product_df[i] # product_data
        /\ product_data' = product_df[i]
        /\ a_freight' \in {a_freight, TwoDecimals(def_a_freight(product_df[i], a_mode))}
        /\ b_freight' \in {b_freight, TwoDecimals(def_b_freight(product_df[i], b_mode))}
        /\ UNCHANGED <<interest_rate, a_mode, a_lead, alt_origin, b_mode, b_lead>>
        /\ Rerun

SetInterest ==
    \E m \in SliderMills :
        /\ interest_rate' = SliderRate(m)
        /\ interest_rate' # interest_rate
        /\ UNCHANGED <<product_data, a_mode, a_lead, a_freight, alt_origin, b_mode,
                       b_lead, b_freight>>
        /\ Rerun

\* The inputs are keyed by the mode, so a new mode shows fresh inputs.
SetModeA ==
    \E m \in Modes :
        /\ m # a_mode
        /\ a_mode' = m
        /\ a_lead' = FloatOfInt(def_a_lead(m))
        /\ a_freight' = TwoDecimals(def_a_freight(product_data, m))
        /\ UNCHANGED <<product_data, interest_rate, alt_origin, b_mode, b_lead,
                       b_freight>>
        /\ Rerun

SetLeadA ==
    \E w \in TypedLeads :
        /\ a_lead' = FloatOfInt(w)
        /\ UNCHANGED <<product_data, interest_rate, a_mode, a_freight, alt_origin,
                       b_mode, b_lead, b_freight>>
        /\ Rerun

SetFreightA ==
    \E m \in TypedFreightMills :
        /\ a_freight' = FloatOf(m)
        /\ UNCHANGED <<product_data, interest_rate, a_mode, a_lead, alt_origin,
                       b_mode, b_lead, b_freight>>
        /\ Rerun

\* The lead-time default depends on the origin (as the freight default on
\* the weight above).
SetOrigin ==
    \E o \in Origins :
        /\ o # alt_origin
        /\ alt_origin' = o
        /\ b_lead' \in {b_lead, FloatOfInt(def_b_lead(o, b_mode))}
        /\ UNCHANGED <<product_data, interest_rate, a_mode, a_lead, a_freight,
                       b_mode, b_freight>>
        /\ Rerun

SetModeB ==
    \E m \in Modes :
        /\ m # b_mode
        /\ b_mode' = m
        /\ b_lead' = FloatOfInt(def_b_lead(alt_origin, m))
        /\ b_freight' = TwoDecimals(def_b_freight(product_data, m))
        /\ UNCHANGED <<product_data, interest_rate, a_mode, a_lead, a_freight,
                       alt_origin>>
        /\ Rerun

SetLeadB ==
    \E w \in TypedLeads :
        /\ b_lead' = FloatOfInt(w)
        /\ UNCHANGED <<product_data, interest_rate, a_mode, a_lead, a_freight,
                       alt_origin, b_mode, b_freight>>
        /\ Rerun

SetFreightB ==
    \E m \in TypedFreightMills :
        /\ b_freight' = FloatOf(m)
        /\ UNCHANGED <<product_data, interest_rate, a_mode, a_lead, a_freight,
                       alt_origin, b_mode, b_lead>>
        /\ Rerun

NextApp ==
    \/ SelectProduct
    \/ SetInterest
    \/ SetModeA
    \/ SetLeadA
    \/ SetFreightA
    \/ SetOrigin
    \/ SetModeB
    \/ SetLeadB
    \/ SetFreightB

SpecApp == InitApp /\ [][NextApp]_vars

\* ------------------------------------------------------------------------
\* Properties of the engine (checked under SpecTCO)
\* ------------------------------------------------------------------------

\* C1: the returned 'Total TCO' is the sum FOB Price + Freight + Base Duty
\* + Section 301 Penalty + Inventory Cost of the returned fields, added in
\* that order, and 'FOB Price' and 'Freight' are the arguments unchanged.
C1_TotalIsSumOfFields ==
    pc = "returned" =>
        /\ ret["Total TCO"] =
             FAdd(FAdd(FAdd(FAdd(ret["FOB Price"], ret["Freight"]),
                            ret["Base Duty"]),
                       ret["Section 301 Penalty"]),
                  ret["Inventory Cost"])
        /\ ret["FOB Price"] = args.fob_price
        /\ ret["Freight"] = args.freight

C1_Witness ==
    /\ pc = "returned"
    /\ ret["Freight"] > 0
    /\ ret["Base Duty"] > 0
    /\ ret["Section 301 Penalty"] > 0
    /\ ret["Inventory Cost"] > 0
    /\ ret["Total TCO"] > FAdd(ret["FOB Price"], ret["Freight"])

\* C2: country type "Mexico" returns a zero base duty and a zero Section 301
\* penalty whatever the rates and the price.
C2_MexicoPaysNothing ==
    (pc = "returned" /\ args.country_type = "Mexico") =>
        (ret["Base Duty"] = 0 /\ ret["Section 301 Penalty"] = 0)

C2_Witness ==
    /\ pc = "returned"
    /\ args.country_type = "Mexico"
    /\ args.fob_price > 0 /\ args.base_duty > 0 /\ args.section_301 > 0
    /\ ret["Base Duty"] = 0

\* C3: country type "China" returns the base duty fob_price * base_duty and
\* the Section 301 penalty fob_price * section_301 as separate line items.
C3_ChinaPaysBoth ==
    (pc = "returned" /\ args.country_type = "China") =>
        /\ ret["Section 301 Penalty"] = FMul(args.fob_price, args.section_301)
        /\ ret["Base Duty"] = FMul(args.fob_price, args.base_duty)

C3_Witness ==
    /\ pc = "returned"
    /\ args.country_type = "China"
    /\ ret["Section 301 Penalty"] > 0
    /\ ret["Base Duty"] > 0
    /\ ret["Section 301 Penalty"] # ret["Base Duty"]

\* C4: every country type other than "Mexico" and "China", known or not,
\* returns a breakdown with a zero Section 301 penalty and the base duty
\* fob_price * base_duty.
C4_OthersPayBaseDutyOnly ==
    (pc = "returned" /\ args.country_type \notin {"Mexico", "China"}) =>
        /\ DOMAIN ret = {"FOB Price", "Freight", "Base Duty",
                         "Section 301 Penalty", "Inventory Cost", "Total TCO"}
        /\ ret["Section 301 Penalty"] = 0
        /\ ret["Base Duty"] = FMul(args.fob_price, args.base_duty)

C4_Witness ==
    /\ pc = "returned"
    /\ args.country_type = ""
    /\ args.fob_price > 0 /\ args.section_301 > 0
    /\ ret["Base Duty"] > 0
    /\ ret["Section 301 Penalty"] = 0

\* ------------------------------------------------------------------------
\* Properties of the analyst engine (checked under SpecInsight)
\* ------------------------------------------------------------------------

Favors(ins) == ins.verdict[1] = "Recommendation: DIVERSIFY to"

TariffTexts    == {"Avoiding China tariffs saves",
                   "However, tariffs are higher in {alt_origin} by"}
FreightTexts   == {"Logistics costs increase by", "Logistics costs decrease by"}
InventoryTexts == {"Extended lead times add", "Faster lead times save"}

\* How many entries of the driver list carry one of the texts.
CountOf(drv, texts) == Cardinality({i \in DOMAIN drv : drv[i].text \in texts})

\* Position of a driver in the definitional order.
Rank(text) ==
    IF text \in TariffTexts THEN 1
    ELSE IF text \in FreightTexts THEN 2
    ELSE IF text \in InventoryTexts THEN 3
    ELSE 4

\* C5: with savings = total of res_a - total of res_b, the verdict favors
\* the alternate origin exactly when savings > 0; otherwise (tie included)
\* it is the remain verdict and the reason reports |savings| as a cost
\* increase.
C5_VerdictFollowsSavings ==
    insight # None =>
        /\ savings = FSub(res_a["Total TCO"], res_b["Total TCO"])
        /\ Favors(insight) <=> savings > 0
        /\ savings > 0 => insight.verdict = <<"Recommendation: DIVERSIFY to", alt_origin>>
        /\ ~(savings > 0) =>
              /\ insight.verdict = <<"Recommendation: REMAIN in China">>
              /\ insight.reason = Msg("Moving to {alt_origin} increases cost by",
                                      alt_origin, Fmt2(FAbs(savings)))

C5_Witness ==
    /\ insight # None
    /\ savings = 0
    /\ res_a # res_b
    /\ insight.verdict = <<"Recommendation: REMAIN in China">>

\* C6: for each driver, a gap equal to 0.01 or to -0.01 adds no message of
\* that driver, and a gap above 0.01 or below -0.01 adds exactly one.
C6_ThresholdIsStrict ==
    insight # None =>
        /\ FAbs(tariff_gap(res_a, res_b)) = Threshold
              => CountOf(insight.drivers, TariffTexts) = 0
        /\ FAbs(tariff_gap(res_a, res_b)) > Threshold
              => CountOf(insight.drivers, TariffTexts) = 1
        /\ FAbs(freight_gap(res_a, res_b)) = Threshold
              => CountOf(insight.drivers, FreightTexts) = 0
        /\ FAbs(freight_gap(res_a, res_b)) > Threshold
              => CountOf(insight.drivers, FreightTexts) = 1
        /\ FAbs(inventory_gap(res_a, res_b)) = Threshold
              => CountOf(insight.drivers, InventoryTexts) = 0
        /\ FAbs(inventory_gap(res_a, res_b)) > Threshold
              => CountOf(insight.drivers, InventoryTexts) = 1

C6_Witness ==
    /\ insight # None
    /\ freight_gap(res_a, res_b) = Threshold
    /\ tariff_gap(res_a, res_b) = -Threshold
    /\ inventory_gap(res_a, res_b) > Threshold
    /\ Len(insight.drivers) = 1

\* C7: the driver list names the triggered drivers in the order tariff,
\* freight, inventory, each at most once, whatever the sizes of the gaps.
C7_DriversInFixedOrder ==
    insight # None =>
        \A i, j \in DOMAIN insight.drivers :
            i < j => Rank(insight.drivers[i].text) < Rank(insight.drivers[j].text)

C7_Witness ==
    /\ insight # None
    /\ Len(insight.drivers) = 3
    /\ Threshold < FAbs(tariff_gap(res_a, res_b))
    /\ FAbs(tariff_gap(res_a, res_b)) < FAbs(freight_gap(res_a, res_b))
    /\ FAbs(freight_gap(res_a, res_b)) < FAbs(inventory_gap(res_a, res_b))

\* The decimals the compared breakdowns are written with.
CompMills ==
    CompFobMills \cup CompFreightMills \cup CompDutyMills \cup Comp301Mills
        \cup CompInvMills

\* x and y are the floats of two decimals 0.005 apart.
DiffersBy005(x, y) ==
    \E m, n \in CompMills :
        /\ Abs(m - n) = 5
        /\ x = FloatOf(m)
        /\ y = FloatOf(n)

EveryComponentDiffersBy005(ra, rb) ==
    \A k \in {"FOB Price", "Freight", "Base Duty", "Section 301 Penalty",
              "Inventory Cost"} : DiffersBy005(ra[k], rb[k])

NoThresholdTriggered(ra, rb) ==
    /\ FAbs(tariff_gap(ra, rb)) <= Threshold
    /\ FAbs(freight_gap(ra, rb)) <= Threshold
    /\ FAbs(inventory_gap(ra, rb)) <= Threshold

\* C8: the fallback entry is in the driver list exactly when no threshold
\* triggered, and is then the only entry; two breakdowns whose every
\* component differs by 0.005 yield the list of that one entry; the list is
\* never empty.
C8_FallbackOnlyBelowThreshold ==
    insight # None =>
        /\ (\E i \in DOMAIN insight.drivers : insight.drivers[i] = Fallback)
              <=> NoThresholdTriggered(res_a, res_b)
        /\ (\E i \in DOMAIN insight.drivers : insight.drivers[i] = Fallback)
              => insight.drivers = <<Fallback>>
        /\ EveryComponentDiffersBy005(res_a, res_b) => insight.drivers = <<Fallback>>
        /\ insight.drivers # <<>>

\* C9: comparing the breakdowns in the exchanged order negates the savings
\* and, unless the savings are 0, turns the verdict around.
C9_SwapNegatesAndFlips ==
    (insight # None /\ swapped # None) =>
        /\ swapped.savings = -savings
        /\ savings # 0 => (Favors(swapped.insight) <=> ~Favors(insight))

C9_Witness ==
    /\ insight # None
    /\ swapped # None
    /\ savings > 0
    /\ savings < Threshold
    /\ Favors(insight)
    /\ ~Favors(swapped.insight)

\* ------------------------------------------------------------------------
\* Property of the script (checked under SpecApp)
\* ------------------------------------------------------------------------

\* C10: Option A is the China evaluation and Option B the "Mexico" or
\* "Standard" evaluation of the same catalog row; Option B's Section 301
\* penalty is 0, the tariff gap handed to the analyst is not negative, and
\* the "tariffs are higher in {alt_origin}" sentence is never listed.
C10_TariffNeverHigherAbroad ==
    /\ res_a["FOB Price"] = product_data.Unit_Price_USD
    /\ res_b["FOB Price"] = product_data.Unit_Price_USD
    /\ res_a["Section 301 Penalty"] =
          FMul(product_data.Unit_Price_USD, product_data.Section_301_Tariff)
    /\ res_a["Base Duty"] =
          FMul(product_data.Unit_Price_USD, product_data.Base_Duty_Rate)
    /\ res_b["Base Duty"] =
          IF alt_origin = "Mexico" THEN 0
          ELSE FMul(product_data.Unit_Price_USD, product_data.Base_Duty_Rate)
    /\ res_b["Section 301 Penalty"] = 0
    /\ tariff_gap(res_a, res_b) >= 0
    /\ \A i \in DOMAIN insight.drivers :
          insight.drivers[i].text # "However, tariffs are higher in {alt_origin} by"

C10_Witness ==
    /\ alt_origin = "India"
    /\ b_mode = "Air"
    /\ a_freight < 0
    /\ b_lead = FloatOfInt(3)
    /\ product_data.Base_Duty_Rate > 0
    /\ product_data.Section_301_Tariff > 0
    /\ res_b["Base Duty"] > 0
    /\ tariff_gap(res_a, res_b) > Threshold
    /\ insight.drivers[1].text = "Avoiding China tariffs saves"

====
